---- MODULE Spec2Model ----
(***************************************************************************)
(* Account storage slot, account storage header and the transaction-kernel *)
(* output decoder of miden-base, as pure operators applied by one action   *)
(* per public operation.  `call` records the operation last invoked with   *)
(* its inputs, `ret` what it returned.                                     *)
(***************************************************************************)
EXTENDS Integers, Sequences, FiniteSets

VARIABLES call, ret

vars == <<call, ret>>

\* ---------------------------------------------------------------------------
\* Bounds of the explored inputs
\* ---------------------------------------------------------------------------

\* longest `elements` slice handed to the decoder
MaxElems == 6
\* number of distinct fillings of an input (word contents)
MaxSeed == 1
\* headers are explored with 0..SmallLen slots and around the 255 limit
SmallLen == 2
\* how far above MAX_NUM_STORAGE_SLOTS slot lists and indices are explored
Over == 1

\* ---------------------------------------------------------------------------
\* Rust outcomes: Result::Ok, Result::Err, and an abort (panic)
\* ---------------------------------------------------------------------------

Ok(v) == [tag |-> "Ok", val |-> v]

Err(e) == [tag |-> "Err", err |-> e]

Panic == [tag |-> "Panic"]

\* ---------------------------------------------------------------------------
\* Field elements and words
\* ---------------------------------------------------------------------------

ZERO == 0

EMPTY_WORD == <<ZERO, ZERO, ZERO, ZERO>>

\* Word -> Digest conversion (`.into()`): same four elements
WordToDigest(w) == <<w[1], w[2], w[3], w[4]>>

\* ---------------------------------------------------------------------------
\* Kernel memory layout of the account data (memory-layout collaborator)
\* ---------------------------------------------------------------------------

ACCT_DATA_MEM_SIZE == 4

ACCT_ID_AND_NONCE_OFFSET == 0

ACCT_ID_IDX == 0

ACCT_NONCE_IDX == 3

ACCT_VAULT_ROOT_OFFSET == 1

ACCT_STORAGE_COMMITMENT_OFFSET == 2

ACCT_CODE_COMMITMENT_OFFSET == 3

\* ---------------------------------------------------------------------------
\* Account identifier and account header (objects crate)
\* ---------------------------------------------------------------------------

MIN_ACCOUNT_ONES == 5

RECURSIVE CountOnes(_)
CountOnes(n) == IF n = 0 THEN 0 ELSE (n % 2) + CountOnes(n \div 2)

\* AccountId::try_from(Felt): fallible decoding of one field element
AccountId_try_from(felt) ==
    IF CountOnes(felt) >= MIN_ACCOUNT_ONES
    THEN Ok([account_id |-> felt])
    ELSE Err(<<"AccountIdTooFewOnes", MIN_ACCOUNT_ONES, CountOnes(felt)>>)

AccountHeader_new(id, nonce, vault_root, storage_commitment, code_commitment) ==
    [id |-> id, nonce |-> nonce, vault_root |-> vault_root,
     storage_commitment |-> storage_commitment,
     code_commitment |-> code_commitment]

\* ---------------------------------------------------------------------------
\* Transaction-kernel output decoder
\* ---------------------------------------------------------------------------

\* elements[off] of a Rust slice (0-based); the caller checks InBounds first
WordAt(elements, off) == elements[off + 1]

InBounds(elements, off) == off < Len(elements)

\* a decoder that lets over-long slices through the gate
parse_gate_lt(elements) ==
    IF Len(elements) < ACCT_DATA_MEM_SIZE
    THEN [result |-> Err(<<"HeaderDataIncorrectLength", Len(elements), ACCT_DATA_MEM_SIZE>>),
          reads |-> <<>>]
    ELSE LET r_id == <<ACCT_ID_AND_NONCE_OFFSET, ACCT_ID_IDX>>
             id == AccountId_try_from(WordAt(elements, ACCT_ID_AND_NONCE_OFFSET)[ACCT_ID_IDX + 1])
         IN IF id.tag = "Err"
            THEN [result |-> Err(id.err), reads |-> <<r_id>>]
            ELSE [result |-> Ok(AccountHeader_new(id.val,
                        WordAt(elements, ACCT_ID_AND_NONCE_OFFSET)[ACCT_NONCE_IDX + 1],
                        WordToDigest(WordAt(elements, ACCT_VAULT_ROOT_OFFSET)),
                        WordToDigest(WordAt(elements, ACCT_STORAGE_COMMITMENT_OFFSET)),
                        WordToDigest(WordAt(elements, ACCT_CODE_COMMITMENT_OFFSET)))),
                  reads |-> <<r_id>>]

\* a decoder that passes the vault root and the storage commitment swapped
parse_swapped(elements) ==
    IF Len(elements) # ACCT_DATA_MEM_SIZE
    THEN [result |-> Err(<<"HeaderDataIncorrectLength", Len(elements), ACCT_DATA_MEM_SIZE>>),
          reads |-> <<>>]
    ELSE LET id == AccountId_try_from(WordAt(elements, ACCT_ID_AND_NONCE_OFFSET)[ACCT_ID_IDX + 1])
         IN IF id.tag = "Err"
            THEN [result |-> Err(id.err), reads |-> <<<<ACCT_ID_AND_NONCE_OFFSET, ACCT_ID_IDX>>>>]
            ELSE [result |-> Ok(AccountHeader_new(id.val,
                        WordAt(elements, ACCT_ID_AND_NONCE_OFFSET)[ACCT_NONCE_IDX + 1],
                        WordToDigest(WordAt(elements, ACCT_STORAGE_COMMITMENT_OFFSET)),
                        WordToDigest(WordAt(elements, ACCT_VAULT_ROOT_OFFSET)),
                        WordToDigest(WordAt(elements, ACCT_CODE_COMMITMENT_OFFSET)))),
                  reads |-> <<<<ACCT_ID_AND_NONCE_OFFSET, ACCT_ID_IDX>>,
                              <<ACCT_ID_AND_NONCE_OFFSET, ACCT_NONCE_IDX>>,
                              <<ACCT_VAULT_ROOT_OFFSET>>,
                              <<ACCT_STORAGE_COMMITMENT_OFFSET>>,
                              <<ACCT_CODE_COMMITMENT_OFFSET>>>>]

\* a decoder that reads the nonce before it decodes the identifier and that
\* builds a header around an identifier that failed to decode
parse_no_propagate(elements) ==
    IF Len(elements) # ACCT_DATA_MEM_SIZE
    THEN [result |-> Err(<<"HeaderDataIncorrectLength", Len(elements), ACCT_DATA_MEM_SIZE>>),
          reads |-> <<>>]
    ELSE LET felt == WordAt(elements, ACCT_ID_AND_NONCE_OFFSET)[ACCT_ID_IDX + 1]
         IN [result |-> Ok(AccountHeader_new([account_id |-> felt],
                        WordAt(elements, ACCT_ID_AND_NONCE_OFFSET)[ACCT_NONCE_IDX + 1],
                        WordToDigest(WordAt(elements, ACCT_VAULT_ROOT_OFFSET)),
                        WordToDigest(WordAt(elements, ACCT_STORAGE_COMMITMENT_OFFSET)),
                        WordToDigest(WordAt(elements, ACCT_CODE_COMMITMENT_OFFSET)))),
             reads |-> <<<<ACCT_ID_AND_NONCE_OFFSET, ACCT_NONCE_IDX>>,
                         <<ACCT_ID_AND_NONCE_OFFSET, ACCT_ID_IDX>>,
                         <<ACCT_VAULT_ROOT_OFFSET>>,
                         <<ACCT_STORAGE_COMMITMENT_OFFSET>>,
                         <<ACCT_CODE_COMMITMENT_OFFSET>>>>]

\* parse_final_account_header(elements: &[Word]).  `result` is the returned
\* value; `reads` lists, in program order, the index expressions evaluated on
\* `elements` (<<word offset, element index>> or <<word offset>>).  An index
\* past the end of the slice aborts.
parse_final_account_header(elements) ==
    IF Len(elements) # ACCT_DATA_MEM_SIZE
    THEN [result |-> Err(<<"HeaderDataIncorrectLength", Len(elements), ACCT_DATA_MEM_SIZE>>),
          reads |-> <<>>]
    ELSE IF ~InBounds(elements, ACCT_ID_AND_NONCE_OFFSET)
    THEN [result |-> Panic, reads |-> <<<<ACCT_ID_AND_NONCE_OFFSET, ACCT_ID_IDX>>>>]
    ELSE LET r_id == <<ACCT_ID_AND_NONCE_OFFSET, ACCT_ID_IDX>>
             id == AccountId_try_from(WordAt(elements, ACCT_ID_AND_NONCE_OFFSET)[ACCT_ID_IDX + 1])
         IN IF id.tag = "Err"
            THEN [result |-> Err(id.err), reads |-> <<r_id>>]
            ELSE LET r_nonce == <<ACCT_ID_AND_NONCE_OFFSET, ACCT_NONCE_IDX>>
                     nonce == WordAt(elements, ACCT_ID_AND_NONCE_OFFSET)[ACCT_NONCE_IDX + 1]
                 IN IF ~InBounds(elements, ACCT_VAULT_ROOT_OFFSET)
                    THEN [result |-> Panic,
                          reads |-> <<r_id, r_nonce, <<ACCT_VAULT_ROOT_OFFSET>>>>]
                    ELSE IF ~InBounds(elements, ACCT_STORAGE_COMMITMENT_OFFSET)
                    THEN [result |-> Panic,
                          reads |-> <<r_id, r_nonce, <<ACCT_VAULT_ROOT_OFFSET>>,
                                      <<ACCT_STORAGE_COMMITMENT_OFFSET>>>>]
                    ELSE IF ~InBounds(elements, ACCT_CODE_COMMITMENT_OFFSET)
                    THEN [result |-> Panic,
                          reads |-> <<r_id, r_nonce, <<ACCT_VAULT_ROOT_OFFSET>>,
                                      <<ACCT_STORAGE_COMMITMENT_OFFSET>>,
                                      <<ACCT_CODE_COMMITMENT_OFFSET>>>>]
                    ELSE LET vault_root == WordToDigest(WordAt(elements, ACCT_VAULT_ROOT_OFFSET))
                             storage_commitment ==
                                 WordToDigest(WordAt(elements, ACCT_STORAGE_COMMITMENT_OFFSET))
                             code_commitment ==
                                 WordToDigest(WordAt(elements, ACCT_CODE_COMMITMENT_OFFSET))
                         IN [result |-> Ok(AccountHeader_new(id.val, nonce, vault_root,
                                              storage_commitment, code_commitment)),
                             reads |-> <<r_id, r_nonce, <<ACCT_VAULT_ROOT_OFFSET>>,
                                         <<ACCT_STORAGE_COMMITMENT_OFFSET>>,
                                         <<ACCT_CODE_COMMITMENT_OFFSET>>>>]

\* ---------------------------------------------------------------------------
\* Byte streams (ByteWriter / ByteReader of the serialization library)
\*
\* A writer is the sequence of bytes written so far.  A reader is the pair
\* (bytes, pos), pos being the number of bytes consumed; every read returns
\* the reader position it leaves behind.  Field elements of the model stay
\* below 2^31, so the upper four bytes of an encoded element are all zero, or
\* all 255 in the one non-canonical pattern the streams use.
\* ---------------------------------------------------------------------------

ROk(v, pos) == [tag |-> "Ok", val |-> v, pos |-> pos]

RErr(e, pos) == [tag |-> "Err", err |-> e, pos |-> pos]

\* ByteReader::read_u8
read_u8(bytes, pos) ==
    IF pos + 1 > Len(bytes)
    THEN RErr("UnexpectedEOF", pos)
    ELSE ROk(bytes[pos + 1], pos + 1)

\* Felt as 8 little-endian bytes of its canonical u64 value
Felt_write_into(v) ==
    <<v % 256, (v \div 256) % 256, (v \div 65536) % 256, (v \div 16777216) % 256,
      0, 0, 0, 0>>

\* Felt::read_from: a u64 of 8 little-endian bytes, rejected when it is not
\* below the field modulus 2^64 - 2^32 + 1 (upper half all ones, lower half
\* not zero)
Felt_read_from(bytes, pos) ==
    IF pos + 8 > Len(bytes)
    THEN RErr("UnexpectedEOF", pos)
    ELSE LET b(i) == bytes[pos + i]
             lo == b(1) + b(2) + b(3) + b(4)
         IN IF b(5) = 255 /\ b(6) = 255 /\ b(7) = 255 /\ b(8) = 255 /\ lo > 0
            THEN RErr("InvalidValue", pos + 8)
            ELSE ROk(b(1) + 256 * b(2) + 65536 * b(3) + 16777216 * b(4), pos + 8)

\* Word = [Felt; 4]: the four elements in order
Word_write_into(w) ==
    Felt_write_into(w[1]) \o Felt_write_into(w[2]) \o
    Felt_write_into(w[3]) \o Felt_write_into(w[4])

RECURSIVE ReadFelts(_, _, _, _)
ReadFelts(bytes, pos, k, acc) ==
    IF k = 0 THEN ROk(acc, pos)
    ELSE LET f == Felt_read_from(bytes, pos)
         IN IF f.tag = "Err" THEN f
            ELSE ReadFelts(bytes, f.pos, k - 1, Append(acc, f.val))

Word_read_from(bytes, pos) == ReadFelts(bytes, pos, 4, <<>>)

\* ---------------------------------------------------------------------------
\* StorageSlotType
\* ---------------------------------------------------------------------------

StorageSlotTypes == {"Value", "Map"}

\* StorageSlotType::as_word
StorageSlotType_as_word(t) ==
    IF t = "Value" THEN <<ZERO, ZERO, ZERO, ZERO>> ELSE <<1, ZERO, ZERO, ZERO>>

\* one tag byte: the discriminant
StorageSlotType_write_into(t) == IF t = "Value" THEN <<0>> ELSE <<1>>

StorageSlotType_read_from(bytes, pos) ==
    LET b == read_u8(bytes, pos)
    IN IF b.tag = "Err" THEN b
       ELSE IF b.val = 0 THEN ROk("Value", b.pos)
       ELSE IF b.val = 1 THEN ROk("Map", b.pos)
       ELSE RErr("InvalidValue", b.pos)

\* (StorageSlotType, Word): the components in order
Pair_write_into(p) == StorageSlotType_write_into(p[1]) \o Word_write_into(p[2])

Pair_read_from(bytes, pos) ==
    LET t == StorageSlotType_read_from(bytes, pos)
    IN IF t.tag = "Err" THEN t
       ELSE LET w == Word_read_from(bytes, t.pos)
            IN IF w.tag = "Err" THEN w
               ELSE ROk(<<t.val, w.val>>, w.pos)

\* bytes of one encoded (StorageSlotType, Word) pair
PairSize == 1 + 4 * 8

\* ByteWriter::write_many: items lo..hi one after the other.  The loop is
\* unfolded by halves, which keeps the order of the items.
RECURSIVE write_range(_, _, _)
write_range(items, lo, hi) ==
    IF lo > hi THEN <<>>
    ELSE IF lo = hi THEN Pair_write_into(items[lo])
    ELSE LET mid == (lo + hi) \div 2
         IN write_range(items, lo, mid) \o write_range(items, mid + 1, hi)

write_many(items) == write_range(items, 1, Len(items))

\* ByteReader::read_many: num_elements items read one after the other from
\* `pos`, stopping at the first error.  The loop is unfolded by halves: the
\* second half starts where the first half stopped.
RECURSIVE read_many(_, _, _)
read_many(bytes, pos, num_elements) ==
    IF num_elements = 0 THEN ROk(<<>>, pos)
    ELSE IF num_elements = 1
    THEN LET p == Pair_read_from(bytes, pos)
         IN IF p.tag = "Err" THEN p ELSE ROk(<<p.val>>, p.pos)
    ELSE LET first == read_many(bytes, pos, num_elements \div 2)
         IN IF first.tag = "Err" THEN first
            ELSE LET rest == read_many(bytes, first.pos,
                                       num_elements - num_elements \div 2)
                 IN IF rest.tag = "Err" THEN rest
                    ELSE ROk(first.val \o rest.val, rest.pos)

\* ---------------------------------------------------------------------------
\* AccountStorageHeader
\* ---------------------------------------------------------------------------

MAX_NUM_STORAGE_SLOTS == 255

\* `as u8`
AsU8(n) == n % 256

\* a constructor that also refuses a full header of MAX_NUM_STORAGE_SLOTS
new_strict(slots) ==
    IF ~(Len(slots) < MAX_NUM_STORAGE_SLOTS) THEN Panic ELSE [slots |-> slots]

\* AccountStorageHeader::new
new(slots) ==
    IF ~(Len(slots) <= MAX_NUM_STORAGE_SLOTS) THEN Panic ELSE [slots |-> slots]

num_slots(h) == Len(h.slots)

\* AccountStorageHeader::slot
slot(h, index) ==
    IF index < Len(h.slots)
    THEN Ok(h.slots[index + 1])
    ELSE Err([kind |-> "StorageIndexOutOfBounds",
              max |-> AsU8(Len(h.slots)),
              actual |-> AsU8(index)])

\* an encoder whose length byte is one short
header_write_short(h) ==
    <<AsU8(Len(h.slots) - 1)>> \o write_many(h.slots)

\* Serializable for AccountStorageHeader: write_into
AccountStorageHeader_write_into(h) ==
    LET len == AsU8(Len(h.slots))
    IN <<len>> \o write_many(h.slots)

\* a reader that insists on the end of the stream after the last pair
header_read_to_end(bytes, pos) ==
    LET len == read_u8(bytes, pos)
    IN IF len.tag = "Err" THEN [result |-> Err(len.err), pos |-> len.pos]
       ELSE LET slots == read_many(bytes, len.pos, len.val)
            IN IF slots.tag = "Err" THEN [result |-> Err(slots.err), pos |-> slots.pos]
               ELSE IF slots.pos # Len(bytes)
               THEN [result |-> Err("UnconsumedBytes"), pos |-> slots.pos]
               ELSE [result |-> Ok(new(slots.val)), pos |-> slots.pos]

\* Deserializable for AccountStorageHeader: read_from, on a reader at `pos`.
\* `result` is Ok(header), Err(e) or Panic; `pos` the reader position left.
AccountStorageHeader_read_from(bytes, pos) ==
    LET len == read_u8(bytes, pos)
    IN IF len.tag = "Err" THEN [result |-> Err(len.err), pos |-> len.pos]
       ELSE LET slots == read_many(bytes, len.pos, len.val)
            IN IF slots.tag = "Err" THEN [result |-> Err(slots.err), pos |-> slots.pos]
               ELSE IF new(slots.val) = Panic
               THEN [result |-> Panic, pos |-> slots.pos]
               ELSE [result |-> Ok(new(slots.val)), pos |-> slots.pos]

\* ---------------------------------------------------------------------------
\* StorageMap (storage-map collaborator): a map is the sequence of its
\* (key, value) entries in key order; its root is a digest of the entries
\* ---------------------------------------------------------------------------

EMPTY_STORAGE_MAP_ROOT == <<901, 902, 903, 904>>

StorageMap_new == <<>>

RECURSIVE DigestOf(_, _, _)
DigestOf(entries, i, acc) ==
    IF i > Len(entries) THEN acc
    ELSE DigestOf(entries, i + 1,
             (31 * acc + entries[i][1][1] + 3 * entries[i][1][2]
                  + 5 * entries[i][2][1] + 7 * entries[i][2][4] + 11) % 65521)

\* StorageMap::root
StorageMap_root(map) ==
    IF map = <<>> THEN EMPTY_STORAGE_MAP_ROOT
    ELSE <<1000 + DigestOf(map, 1, 1), 2000 + DigestOf(map, 1, 2),
           3000 + DigestOf(map, 1, 3), 4000 + DigestOf(map, 1, 4)>>

RECURSIVE WriteEntries(_, _)
WriteEntries(map, i) ==
    IF i > Len(map) THEN <<>>
    ELSE Word_write_into(map[i][1]) \o Word_write_into(map[i][2]) \o WriteEntries(map, i + 1)

\* the map's own encoding: entry count, then the entries
StorageMap_write_into(map) == <<Len(map)>> \o WriteEntries(map, 1)

RECURSIVE ReadEntries(_, _, _, _)
ReadEntries(bytes, pos, k, acc) ==
    IF k = 0 THEN ROk(acc, pos)
    ELSE LET key == Word_read_from(bytes, pos)
         IN IF key.tag = "Err" THEN key
            ELSE LET val == Word_read_from(bytes, key.pos)
                 IN IF val.tag = "Err" THEN val
                    ELSE ReadEntries(bytes, val.pos, k - 1,
                                     Append(acc, <<key.val, val.val>>))

StorageMap_read_from(bytes, pos) ==
    LET n == read_u8(bytes, pos)
    IN IF n.tag = "Err" THEN n ELSE ReadEntries(bytes, n.pos, n.val, <<>>)

\* ---------------------------------------------------------------------------
\* StorageSlot
\* ---------------------------------------------------------------------------

NUM_ELEMENTS_PER_STORAGE_SLOT == 8

\* StorageSlot::Value(word)
Value(word) == [variant |-> "Value", word |-> word]

\* StorageSlot::Map(map)
Map(map) == [variant |-> "Map", map |-> map]

\* a default test that compares every slot with the empty word
is_default_raw(s) ==
    IF s.variant = "Value" THEN s.word = EMPTY_WORD
    ELSE WordToDigest(StorageMap_root(s.map)) = EMPTY_WORD

\* StorageSlot::is_default
is_default(s) ==
    IF s.variant = "Value" THEN s.word = EMPTY_WORD
    ELSE StorageMap_root(s.map) = EMPTY_STORAGE_MAP_ROOT

\* StorageSlot::default_word
default_word(s) ==
    IF s.variant = "Value" THEN EMPTY_WORD
    ELSE WordToDigest(EMPTY_STORAGE_MAP_ROOT)

\* StorageSlot::empty_value
empty_value == Value(EMPTY_WORD)

\* StorageSlot::empty_map
empty_map == Map(StorageMap_new)

\* StorageSlot::value
value(s) ==
    IF s.variant = "Value" THEN s.word
    ELSE WordToDigest(StorageMap_root(s.map))

\* StorageSlot::slot_type
slot_type(s) == IF s.variant = "Value" THEN "Value" ELSE "Map"

\* elements[lo..hi] (0-based, hi excluded) .copy_from_slice(src)
CopyFromSlice(elements, lo, hi, src) ==
    [i \in 1..Len(elements) |->
        IF lo < i /\ i <= hi THEN src[i - lo] ELSE elements[i]]

\* an encoding that never copies the type word
as_elements_value_only(s) ==
    CopyFromSlice([i \in 1..NUM_ELEMENTS_PER_STORAGE_SLOT |-> ZERO], 0, 4, value(s))

\* StorageSlot::as_elements
as_elements(s) ==
    LET elements0 == [i \in 1..NUM_ELEMENTS_PER_STORAGE_SLOT |-> ZERO]
        elements1 == CopyFromSlice(elements0, 0, 4, value(s))
        elements2 == CopyFromSlice(elements1, 4, 8, StorageSlotType_as_word(slot_type(s)))
    IN elements2

\* Serializable for StorageSlot: write_into
StorageSlot_write_into(s) ==
    StorageSlotType_write_into(slot_type(s)) \o
        (IF s.variant = "Value" THEN Word_write_into(s.word)
         ELSE StorageMap_write_into(s.map))

\* a reader that builds a Value slot whatever the tag says
slot_read_ignores_tag(bytes, pos) ==
    LET storage_slot_type == StorageSlotType_read_from(bytes, pos)
        word == Word_read_from(bytes, IF storage_slot_type.tag = "Err" THEN pos + 1
                                      ELSE storage_slot_type.pos)
    IN IF word.tag = "Err" THEN [result |-> Err(word.err), pos |-> word.pos]
       ELSE [result |-> Ok(Value(word.val)), pos |-> word.pos]

\* Deserializable for StorageSlot: read_from, on a reader at `pos`
StorageSlot_read_from(bytes, pos) ==
    LET storage_slot_type == StorageSlotType_read_from(bytes, pos)
    IN IF storage_slot_type.tag = "Err"
       THEN [result |-> Err(storage_slot_type.err), pos |-> storage_slot_type.pos]
       ELSE IF storage_slot_type.val = "Value"
       THEN LET word == Word_read_from(bytes, storage_slot_type.pos)
            IN IF word.tag = "Err" THEN [result |-> Err(word.err), pos |-> word.pos]
               ELSE [result |-> Ok(Value(word.val)), pos |-> word.pos]
       ELSE LET map == StorageMap_read_from(bytes, storage_slot_type.pos)
            IN IF map.tag = "Err" THEN [result |-> Err(map.err), pos |-> map.pos]
               ELSE [result |-> Ok(Map(map.val)), pos |-> map.pos]

\* ---------------------------------------------------------------------------
\* Inputs of the decoder
\* ---------------------------------------------------------------------------

\* identifier elements tried: 31 and 47 have five one-bits, 0, 1 and 30 fewer
IdFelts == {0, 1, 30, 31, 47}

\* word `i` (0-based) of an input: every element of every word is different
FillWord(seed, i) == <<100 * (seed + 1) + 10 * i + 1, 100 * (seed + 1) + 10 * i + 2,
                       100 * (seed + 1) + 10 * i + 3, 100 * (seed + 1) + 10 * i + 4>>

\* a slice of n words whose identifier element (when present) is idf
MkElements(n, idf, seed) ==
    [i \in 1..n |->
        IF i = ACCT_ID_AND_NONCE_OFFSET + 1
        THEN [FillWord(seed, i - 1) EXCEPT ![ACCT_ID_IDX + 1] = idf]
        ELSE FillWord(seed, i - 1)]

\* ---------------------------------------------------------------------------
\* Inputs of the storage header
\* ---------------------------------------------------------------------------

\* slot `i` (1-based) of a slot list: types alternate, words differ per slot
\* and hold elements that need one, two and three bytes
MkSlot(i, pat) ==
    <<IF (i + pat) % 2 = 0 THEN "Value" ELSE "Map",
      <<i, 256 * i + pat, 65536 + i, pat>>>>

MkSlots(n, pat) == [i \in 1..n |-> MkSlot(i, pat)]

\* slot counts handed to the constructor: small ones and around the limit
SlotCounts ==
    (0..SmallLen) \cup ((MAX_NUM_STORAGE_SLOTS - 1)..(MAX_NUM_STORAGE_SLOTS + Over))

\* slot counts of headers that exist
HeaderCounts == {n \in SlotCounts : n <= MAX_NUM_STORAGE_SLOTS}

\* indices looked up: small ones, around 255, and past the 8-bit range
Indices ==
    (0..(SmallLen + 1)) \cup ((MAX_NUM_STORAGE_SLOTS - 1)..(MAX_NUM_STORAGE_SLOTS + 1 + Over))
        \cup {512, 65536 + Over}

\* bytes dropped from the end of a stream: part of a pair, a pair, and more
Cuts == {0, 1, PairSize - 1, PairSize, PairSize + 1}

\* the first k bytes of a stream
Prefix(bytes, k) == IF k <= 0 THEN <<>> ELSE SubSeq(bytes, 1, k)

\* a stream declaring `decl` pairs, holding the n pairs of MkSlots(n, pat)
\* with `cut` bytes dropped from its end
MkStream(n, pat, decl, cut) ==
    LET full == <<decl>> \o write_many(MkSlots(n, pat))
    IN Prefix(full, Len(full) - cut)

\* a pair whose type tag is no StorageSlotType
BadTagPair == <<7>> \o Word_write_into(<<1, 2, 3, 4>>)

\* a pair whose first element is not below the field modulus
BadFeltPair == <<0, 1, 0, 0, 0, 255, 255, 255, 255>> \o Prefix(Word_write_into(<<2, 3, 4, 5>>), 24)

\* ---------------------------------------------------------------------------
\* Inputs of the storage slot
\* ---------------------------------------------------------------------------

\* words held by Value slots: the empty word, the empty-map root, the type
\* word of a Map, and words with elements of one, two and three bytes
SlotWords ==
    {EMPTY_WORD, WordToDigest(EMPTY_STORAGE_MAP_ROOT), StorageSlotType_as_word("Map"),
     <<0, 0, 0, 1>>}
        \cup {<<1 + seed, 300 + seed, 70000 + seed, 0>> : seed \in 0..MaxSeed}

\* a map of k entries
MkMap(k, pat) ==
    [i \in 1..k |-> <<<<i, pat, 0, 0>>, <<256 * i + pat, 0, 65536 + pat, i>>>>]

StorageMaps == {MkMap(k, pat) : k \in 0..SmallLen, pat \in 0..MaxSeed}

StorageSlots ==
    {empty_value, empty_map} \cup {Value(w) : w \in SlotWords}
        \cup {Map(m) : m \in StorageMaps}

\* ---------------------------------------------------------------------------
\* Operations
\* ---------------------------------------------------------------------------

Init ==
    /\ call = [op |-> "none"]
    /\ ret = [tag |-> "none"]

\* no call is in progress: the caller may invoke an operation
Idle == call.op = "none"

\* the caller drops the returned value
Return ==
    /\ ~Idle
    /\ call' = [op |-> "none"]
    /\ ret' = [tag |-> "none"]

ParseFinalAccountHeader ==
    /\ Idle
    /\ \E n \in 0..MaxElems, idf \in IdFelts, seed \in 0..MaxSeed :
        /\ call' = [op |-> "parse_final_account_header",
                    elements |-> MkElements(n, idf, seed)]
        /\ ret' = parse_final_account_header(MkElements(n, idf, seed))

\* AccountStorageHeader::new on a slot list
New ==
    /\ Idle
    /\ \E n \in SlotCounts, pat \in 0..MaxSeed :
        /\ call' = [op |-> "new", slots |-> MkSlots(n, pat)]
        /\ ret' = new(MkSlots(n, pat))

\* AccountStorageHeader::slot on a header that exists
Slot ==
    /\ Idle
    /\ \E n \in HeaderCounts, pat \in 0..MaxSeed, index \in Indices :
        /\ call' = [op |-> "slot", header |-> new(MkSlots(n, pat)), index |-> index]
        /\ ret' = slot(new(MkSlots(n, pat)), index)

\* test_serde_account_storage_header: to_bytes, then read_from_bytes
HeaderSerde ==
    /\ Idle
    /\ \E n \in HeaderCounts, pat \in 0..MaxSeed :
        LET h == new(MkSlots(n, pat))
            bytes == AccountStorageHeader_write_into(h)
        IN /\ call' = [op |-> "header_serde", header |-> h, bytes |-> bytes]
           /\ ret' = AccountStorageHeader_read_from(bytes, 0)

\* AccountStorageHeader::read_from_bytes on a stream of well-formed pairs:
\* complete, truncated, or declaring another number of pairs than it holds
HeaderReadFrom ==
    /\ Idle
    /\ \E n \in HeaderCounts, pat \in 0..MaxSeed, d \in {-1, 0, 1, MAX_NUM_STORAGE_SLOTS},
       cut \in Cuts :
        LET decl == IF d = MAX_NUM_STORAGE_SLOTS THEN d ELSE n + d
            bytes == MkStream(n, pat, decl, cut)
        IN /\ decl \in 0..255
           /\ call' = [op |-> "header_read_from", bytes |-> bytes, wellformed |-> TRUE]
           /\ ret' = AccountStorageHeader_read_from(bytes, 0)

\* AccountStorageHeader::read_from_bytes on a stream with a malformed pair
HeaderReadMalformed ==
    /\ Idle
    /\ \E n \in 0..SmallLen, pat \in 0..MaxSeed, bad \in {BadTagPair, BadFeltPair} :
        LET bytes == <<n + 1>> \o write_many(MkSlots(n, pat)) \o bad
        IN /\ call' = [op |-> "header_read_from", bytes |-> bytes, wellformed |-> FALSE]
           /\ ret' = AccountStorageHeader_read_from(bytes, 0)

\* StorageSlot::is_default
SlotIsDefault ==
    /\ Idle
    /\ \E s \in StorageSlots :
        /\ call' = [op |-> "is_default", slot |-> s]
        /\ ret' = is_default(s)

\* StorageSlot::as_elements
SlotAsElements ==
    /\ Idle
    /\ \E s \in StorageSlots :
        /\ call' = [op |-> "as_elements", slot |-> s]
        /\ ret' = as_elements(s)

\* a StorageSlot written to bytes and read back
SlotSerde ==
    /\ Idle
    /\ \E s \in StorageSlots :
        LET bytes == StorageSlot_write_into(s)
        IN /\ call' = [op |-> "slot_serde", slot |-> s, bytes |-> bytes]
           /\ ret' = StorageSlot_read_from(bytes, 0)

\* StorageSlot::read_from_bytes on an encoding with bytes dropped from its
\* end or with another first byte
SlotReadFrom ==
    /\ Idle
    /\ \E s \in StorageSlots, cut \in Cuts, tag \in {0, 1, 2, 255} :
        LET full == StorageSlot_write_into(s)
            cutoff == Prefix(full, Len(full) - cut)
            bytes == IF cutoff = <<>> THEN cutoff ELSE [cutoff EXCEPT ![1] = tag]
        IN /\ call' = [op |-> "slot_read_from", bytes |-> bytes]
           /\ ret' = StorageSlot_read_from(bytes, 0)

Next ==
    \/ ParseFinalAccountHeader
    \/ New
    \/ Slot
    \/ HeaderSerde
    \/ HeaderReadFrom
    \/ HeaderReadMalformed
    \/ SlotIsDefault
    \/ SlotAsElements
    \/ SlotSerde
    \/ SlotReadFrom
    \/ Return

Spec == Init /\ [][Next]_vars

\* ---------------------------------------------------------------------------
\* Decoder properties
\* ---------------------------------------------------------------------------

IsParse == call.op = "parse_final_account_header"

IdElement(elements) == WordAt(elements, ACCT_ID_AND_NONCE_OFFSET)[ACCT_ID_IDX + 1]

\* C1: a slice whose length differs from ACCT_DATA_MEM_SIZE is answered with
\* HeaderDataIncorrectLength(actual length, expected length), and no element
\* of the slice has been indexed when that answer is given.
C1_LengthGate ==
    (IsParse /\ Len(call.elements) # ACCT_DATA_MEM_SIZE) =>
        /\ ret.result = Err(<<"HeaderDataIncorrectLength",
                              Len(call.elements), ACCT_DATA_MEM_SIZE>>)
        /\ ret.reads = <<>>

C1_Witness ==
    /\ IsParse
    /\ Len(call.elements) > ACCT_DATA_MEM_SIZE
    /\ ret.result.tag = "Err"
    /\ ret.result.err[1] = "HeaderDataIncorrectLength"

\* C2: a slice of exactly ACCT_DATA_MEM_SIZE words with a valid identifier
\* element decodes to Ok(header) whose id comes from the identifier element,
\* whose nonce is the nonce element and whose vault root, storage commitment
\* and code commitment are the words at their own offsets.
C2_SuccessPath ==
    (/\ IsParse
     /\ Len(call.elements) = ACCT_DATA_MEM_SIZE
     /\ AccountId_try_from(IdElement(call.elements)).tag = "Ok") =>
        /\ ret.result.tag = "Ok"
        /\ ret.result.val.id = AccountId_try_from(IdElement(call.elements)).val
        /\ ret.result.val.nonce =
               call.elements[ACCT_ID_AND_NONCE_OFFSET + 1][ACCT_NONCE_IDX + 1]
        /\ ret.result.val.vault_root = call.elements[ACCT_VAULT_ROOT_OFFSET + 1]
        /\ ret.result.val.storage_commitment =
               call.elements[ACCT_STORAGE_COMMITMENT_OFFSET + 1]
        /\ ret.result.val.code_commitment =
               call.elements[ACCT_CODE_COMMITMENT_OFFSET + 1]

C2_Witness ==
    /\ IsParse
    /\ Len(call.elements) = ACCT_DATA_MEM_SIZE
    /\ ret.result.tag = "Ok"
    /\ ret.result.val.vault_root # ret.result.val.storage_commitment
    /\ ret.result.val.storage_commitment # ret.result.val.code_commitment

\* C3: a slice of exactly ACCT_DATA_MEM_SIZE words whose identifier element
\* fails to decode is answered with the identifier-decoding error (not Ok,
\* not a length error), and the identifier element is the only element read.
C3_IdFailure ==
    (/\ IsParse
     /\ Len(call.elements) = ACCT_DATA_MEM_SIZE
     /\ AccountId_try_from(IdElement(call.elements)).tag = "Err") =>
        /\ ret.result = Err(AccountId_try_from(IdElement(call.elements)).err)
        /\ ret.result.err[1] # "HeaderDataIncorrectLength"
        /\ ret.reads = <<<<ACCT_ID_AND_NONCE_OFFSET, ACCT_ID_IDX>>>>

C3_Witness ==
    /\ IsParse
    /\ Len(call.elements) = ACCT_DATA_MEM_SIZE
    /\ ret.result.tag = "Err"
    /\ ret.result.err[1] = "AccountIdTooFewOnes"

\* ---------------------------------------------------------------------------
\* Storage header properties
\* ---------------------------------------------------------------------------

\* C4: slot(i) returns the i-th header in insertion order when
\* i < num_slots(), and otherwise fails with StorageIndexOutOfBounds whose
\* max is num_slots() and whose actual is i, for every usize i.
C4_SlotBounds ==
    (call.op = "slot") =>
        IF call.index < num_slots(call.header)
        THEN ret = Ok(call.header.slots[call.index + 1])
        ELSE ret = Err([kind |-> "StorageIndexOutOfBounds",
                        max |-> num_slots(call.header),
                        actual |-> call.index])

\* C5: decoding the encoding of a header of 0..255 slots gives the header
\* back, and the encoding is one length byte equal to the slot count followed
\* by the pairs in order.
C5_HeaderRoundTrip ==
    (call.op = "header_serde") =>
        /\ ret.result = Ok(call.header)
        /\ Len(call.bytes) = 1 + PairSize * num_slots(call.header)
        /\ call.bytes[1] = num_slots(call.header)
        /\ \A i \in 1..num_slots(call.header) :
               SubSeq(call.bytes, 2 + PairSize * (i - 1), 1 + PairSize * i)
                   = Pair_write_into(call.header.slots[i])

C5_Witness ==
    /\ call.op = "header_serde"
    /\ num_slots(call.header) = MAX_NUM_STORAGE_SLOTS
    /\ ret.result.tag = "Ok"
    /\ num_slots(ret.result.val) = MAX_NUM_STORAGE_SLOTS

IsHeaderRead == call.op = "header_read_from"

\* the stream ends before the pairs its length byte declares
Truncated(bytes) ==
    Len(bytes) = 0 \/ Len(bytes) - 1 < PairSize * bytes[1]

\* the stream holds more bytes than the pairs its length byte declares
Excess(bytes) ==
    Len(bytes) > 0 /\ Len(bytes) - 1 > PairSize * bytes[1]

\* C6 as stated: a truncated stream and a stream whose length byte declares
\* another number of pairs than it holds, more pairs than declared included,
\* are answered with a deserialization error.
C6_RejectsMismatch ==
    (IsHeaderRead /\ (Truncated(call.bytes) \/ Excess(call.bytes))) =>
        /\ ret.result.tag = "Err"
        /\ ret.pos <= Len(call.bytes)

\* C6 amended: a truncated stream is answered with a deserialization error;
\* a stream of well-formed pairs that holds more than it declares is decoded
\* to the declared pairs and the rest is left unread; no stream aborts the
\* decoder or is read past its end.
C6_RejectsTruncated ==
    IsHeaderRead =>
        /\ ret.result.tag # "Panic"
        /\ ret.pos <= Len(call.bytes)
        /\ Truncated(call.bytes) => ret.result.tag = "Err"
        /\ (Excess(call.bytes) /\ call.wellformed) =>
               /\ ret.result.tag = "Ok"
               /\ num_slots(ret.result.val) = call.bytes[1]
               /\ ret.pos = 1 + PairSize * call.bytes[1]
               /\ ret.pos < Len(call.bytes)

C6_Witness ==
    /\ IsHeaderRead
    /\ Truncated(call.bytes)
    /\ Len(call.bytes) > 1
    /\ (Len(call.bytes) - 1) % PairSize # 0
    /\ ret.result = Err("UnexpectedEOF")

\* C7: new aborts exactly when given more than MAX_NUM_STORAGE_SLOTS slots and
\* otherwise keeps the slots unchanged and in order; the decoder never aborts
\* and every header it returns has at most MAX_NUM_STORAGE_SLOTS slots.
C7_AtMost255 ==
    /\ (call.op = "new") =>
           IF Len(call.slots) > MAX_NUM_STORAGE_SLOTS
           THEN ret = Panic
           ELSE ret = [slots |-> call.slots]
    /\ (call.op \in {"header_read_from", "header_serde"}) =>
           /\ ret.result.tag # "Panic"
           /\ ret.result.tag = "Ok" =>
                  num_slots(ret.result.val) <= MAX_NUM_STORAGE_SLOTS

C7_Witness ==
    /\ call.op = "header_read_from"
    /\ ret.result.tag = "Ok"
    /\ num_slots(ret.result.val) = MAX_NUM_STORAGE_SLOTS

C7_WitnessAbort ==
    /\ call.op = "new"
    /\ ret = Panic

\* ---------------------------------------------------------------------------
\* Storage slot properties
\* ---------------------------------------------------------------------------

WordSize == 4 * 8

\* the payload a slot encoding of this first byte needs is not all there
PayloadShort(bytes) ==
    \/ bytes[1] = 0 /\ Len(bytes) < 1 + WordSize
    \/ bytes[1] = 1 /\ (Len(bytes) < 2 \/ Len(bytes) < 2 + 2 * WordSize * bytes[2])

\* C8: decoding the encoding of a slot gives the slot back, in the same
\* variant; the encoding is the type tag followed by the payload of the
\* variant; a stream with an unrecognized tag or with too few payload bytes
\* is answered with a deserialization error.
C8_SlotRoundTrip ==
    /\ (call.op = "slot_serde") =>
           /\ ret.result = Ok(call.slot)
           /\ ret.result.val.variant = call.slot.variant
           /\ ret.pos = Len(call.bytes)
           /\ <<call.bytes[1]>> = StorageSlotType_write_into(slot_type(call.slot))
           /\ SubSeq(call.bytes, 2, Len(call.bytes)) =
                  IF call.slot.variant = "Value"
                  THEN Word_write_into(call.slot.word)
                  ELSE StorageMap_write_into(call.slot.map)
    /\ (call.op = "slot_read_from") =>
           /\ ret.pos <= Len(call.bytes)
           /\ Len(call.bytes) = 0 => ret.result = Err("UnexpectedEOF")
           /\ (Len(call.bytes) > 0 /\ call.bytes[1] \notin {0, 1}) =>
                  ret.result = Err("InvalidValue")
           /\ (Len(call.bytes) > 0 /\ PayloadShort(call.bytes)) =>
                  ret.result = Err("UnexpectedEOF")
           /\ ret.result.tag = "Ok" =>
                  ret.result.val.variant = (IF call.bytes[1] = 0 THEN "Value" ELSE "Map")

C8_Witness ==
    /\ call.op = "slot_serde"
    /\ call.slot.variant = "Map"
    /\ Len(call.slot.map) > 0
    /\ ret.result.tag = "Ok"

C8_WitnessValue ==
    /\ call.op = "slot_serde"
    /\ call.slot.variant = "Value"
    /\ call.slot.word # EMPTY_WORD
    /\ ret.result.tag = "Ok"

\* C9: is_default() is true exactly when value() equals default_word(), the
\* empty word for a Value slot and the empty-map root for a Map slot; the
\* empty value and the empty map are default, a Value slot holding a
\* non-empty word (the empty-map root included) is not.
C9_IsDefault ==
    (call.op = "is_default") =>
        /\ ret = (value(call.slot) = default_word(call.slot))
        /\ default_word(call.slot) =
               (IF call.slot.variant = "Value" THEN <<0, 0, 0, 0>>
                ELSE EMPTY_STORAGE_MAP_ROOT)
        /\ call.slot \in {empty_value, empty_map} => ret = TRUE
        /\ (call.slot.variant = "Value" /\ call.slot.word # <<0, 0, 0, 0>>) => ret = FALSE
        /\ call.slot = Value(EMPTY_STORAGE_MAP_ROOT) => ret = FALSE

C9_Witness ==
    /\ call.op = "is_default"
    /\ call.slot = empty_map
    /\ ret = TRUE

C9_WitnessRoot ==
    /\ call.op = "is_default"
    /\ call.slot = Value(EMPTY_STORAGE_MAP_ROOT)
    /\ ret = FALSE

\* C10: as_elements() is 8 elements: elements 0..4 are value() (the stored
\* word of a Value, the root of a Map) and elements 4..8 the word of
\* slot_type(); the encoding is decided by the (slot_type(), value()) pair.
C10_AsElements ==
    (call.op = "as_elements") =>
        /\ Len(ret) = 8
        /\ SubSeq(ret, 1, 4) = value(call.slot)
        /\ SubSeq(ret, 5, 8) = StorageSlotType_as_word(slot_type(call.slot))
        /\ SubSeq(ret, 1, 4) =
               (IF call.slot.variant = "Value" THEN call.slot.word
                ELSE StorageMap_root(call.slot.map))
        /\ \A t \in StorageSlots :
               (slot_type(t) = slot_type(call.slot) /\ value(t) = value(call.slot))
                   => as_elements(t) = ret

C10_Witness ==
    /\ call.op = "as_elements"
    /\ call.slot.variant = "Map"
    /\ Len(call.slot.map) > 0
    /\ ret[5] # ZERO
    /\ ret[1] # ZERO

====
